---- MODULE Spec2Model ----
(***************************************************************************)
(* git-contribution-analyzer: the collection pipeline (worker thread of    *)
(* main.rs), the foreground render/input loop of main.rs, the navigation   *)
(* state machine of app.rs and the aggregation functions of git.rs.        *)
(*                                                                         *)
(* Option<usize> is modelled as a set: None is {} and Some(i) is {i}.      *)
(* An f64 percent part/total*100 is modelled as the exact rational         *)
(* <<num, den>> in lowest terms (IEEE division is correctly rounded, so    *)
(* equal quotients give equal floats and, for the small integers used      *)
(* here, different quotients give different floats).                       *)
(***************************************************************************)
EXTENDS Integers, Sequences, FiniteSets, TLC

\* Bounds of the model (not program constants).
MaxRepos == 2      \* most repositories one discovery returns
MaxTicks == 1      \* most 100 ms ticks that elapse while the phase is Loading

\* Program constants.
ProgressModulus == 100     \* main.rs:217  (loading_progress + 1) % 100
PercentScale == 100        \* main.rs:100, git.rs:140, git.rs:198  "* 100.0"

None == {}
Some(i) == {i}
IsSome(o) == o # {}
Unwrap(o) == CHOOSE i \in o : TRUE

Range(s) == {s[i] : i \in 1..Len(s)}

Min(a, b) == IF a <= b THEN a ELSE b

RECURSIVE Gcd(_, _)
Gcd(a, b) == IF b = 0 THEN a ELSE Gcd(b, a % b)

\* (part as f64 / total as f64) * 100.0, as an exact rational in lowest terms.
Percent(part, total) ==
    LET n == part * PercentScale
        g == Gcd(n, total)
    IN  IF n = 0 THEN <<0, 1>> ELSE <<n \div g, total \div g>>

ZeroPercent == <<0, 1>>

\* f64 comparison a > b
PercentGt(a, b) == a[1] * b[2] > b[1] * a[2]

\* All orders in which a hash table can iterate over the keys in S.
RECURSIVE IterationOrders(_)
IterationOrders(S) ==
    IF S = {} THEN {<<>>}
    ELSE UNION {{<<x>> \o rest : rest \in IterationOrders(S \ {x})} : x \in S}

\* Lexicographic order of the strings used as repository names (String's Ord).
NameOrder == <<"a", "b">>
NameRank(n) == CHOOSE i \in 1..Len(NameOrder) : NameOrder[i] = n
NameLe(m, n) == NameRank(m) <= NameRank(n)

\* Vec<String>::sort(): the k-th name of the result is the one with k - 1 names
\* before it, a name being before another when it is smaller, or equal and
\* earlier in the list.
SortNames(s) ==
    LET n == Len(s)
        before(j, i) == IF s[j] = s[i] THEN j < i ELSE NameLe(s[j], s[i])
        rank(i) == Cardinality({j \in 1..n : before(j, i)}) + 1
    IN  [k \in 1..n |-> s[CHOOSE i \in 1..n : rank(i) = k]]

\* slice::sort_by(|a, b| b[field].partial_cmp(&a[field]).unwrap()): stable and
\* descending, so an item goes after every item whose percent is larger and
\* after the earlier items whose percent is equal.
SortDescBy(s, field) ==
    LET n == Len(s)
        before(j, i) ==
            \/ PercentGt(s[j][field], s[i][field])
            \/ (~PercentGt(s[i][field], s[j][field]) /\ j < i)
        rank(i) == Cardinality({j \in 1..n : before(j, i)}) + 1
    IN  [k \in 1..n |-> s[CHOOSE i \in 1..n : rank(i) = k]]

SortByContributionPercent(s) == SortDescBy(s, "contribution_percent")

SortByOverallPercent(s) == SortDescBy(s, "overall_contribution_percent")

(***************************************************************************)
(* git.rs: the aggregation engine.                                         *)
(*                                                                         *)
(* A numstat line is the sequence of its whitespace-separated tokens; a    *)
(* token is [num |-> TRUE, val |-> n] when it parses as u32 and            *)
(* [num |-> FALSE, val |-> 0] otherwise ("-" of a binary file, a path).    *)
(***************************************************************************)
Num(n) == [num |-> TRUE, val |-> n]
Word == [num |-> FALSE, val |-> 0]

\* line.split_whitespace().collect_tuple::<(_, _, _)>() with both counts parsed:
\* <<a, d>> of a line that counts, <<0, 0>> of one that is skipped.
ParseNumstat(line) ==
    IF Len(line) = 3 /\ line[1].num /\ line[2].num
    THEN <<line[1].val, line[2].val>>
    ELSE <<0, 0>>

\* The sum of the k-th count over the lines from position i on.
RECURSIVE SumCount(_, _, _)
SumCount(lines, k, i) ==
    IF i > Len(lines) THEN 0
    ELSE ParseNumstat(lines[i])[k] + SumCount(lines, k, i + 1)

\* lines_added += a / total_lines_added += a over the numstat output
SumAdded(lines) == SumCount(lines, 1, 1)

\* lines_deleted += d / total_lines_deleted += d over the numstat output
SumDeleted(lines) == SumCount(lines, 2, 1)

\* author_map.entry(email).or_insert_with(name) over the authors feed:
\* each email keeps the name of its first line.
AuthorMap(feed) ==
    LET emails == {feed[i][1] : i \in 1..Len(feed)}
        first(e) == CHOOSE i \in 1..Len(feed) :
                        /\ feed[i][1] = e
                        /\ \A j \in 1..(i - 1) : feed[j][1] # e
    IN  [e \in emails |-> feed[first(e)][2]]

\* A Contribution whose percent is taken from the lines added alone.
ContributionOfAddedOnly(repo_name, history, total_lines_changed, email, name) ==
    LET stats == history.by_author[email].stats
        lines_added == SumAdded(stats)
        lines_deleted == SumDeleted(stats)
    IN  [author |-> name,
         email |-> email,
         commits |-> history.by_author[email].commits,
         lines_added |-> lines_added,
         lines_deleted |-> lines_deleted,
         contribution_percent |->
             IF total_lines_changed > 0
             THEN Percent(lines_added, total_lines_changed)
             ELSE ZeroPercent,
         repository |-> repo_name]

\* A Contribution whose percent is the quotient even when the total is 0.
ContributionOfUnguarded(repo_name, history, total_lines_changed, email, name) ==
    LET stats == history.by_author[email].stats
        lines_added == SumAdded(stats)
        lines_deleted == SumDeleted(stats)
    IN  [author |-> name,
         email |-> email,
         commits |-> history.by_author[email].commits,
         lines_added |-> lines_added,
         lines_deleted |-> lines_deleted,
         contribution_percent |->
             Percent(lines_added + lines_deleted, total_lines_changed),
         repository |-> repo_name]

\* The body of `for (email, name) in author_map`: one Contribution.
ContributionOf(repo_name, history, total_lines_changed, email, name) ==
    LET stats == history.by_author[email].stats
        lines_added == SumAdded(stats)
        lines_deleted == SumDeleted(stats)
        lines_changed == lines_added + lines_deleted
    IN  [author |-> name,
         email |-> email,
         commits |-> history.by_author[email].commits,
         lines_added |-> lines_added,
         lines_deleted |-> lines_deleted,
         contribution_percent |->
             IF total_lines_changed > 0
             THEN Percent(lines_changed, total_lines_changed)
             ELSE ZeroPercent,
         repository |-> repo_name]

\* analyze_repository(repo_path), with `order` the order in which the HashMap
\* author_map is iterated.  Err when a git command cannot be run.
analyze_repository(repo_path, order) ==
    LET history == repo_path.git
        total_lines_changed == SumAdded(history.total) + SumDeleted(history.total)
        author_map == AuthorMap(history.authors)
        pushed == [i \in 1..Len(order) |->
                     ContributionOf(repo_path.name, history, total_lines_changed,
                                    order[i], author_map[order[i]])]
    IN  IF ~history.readable
        THEN [ok |-> FALSE, name |-> repo_path.name, contributions |-> <<>>]
        ELSE [ok |-> TRUE, name |-> repo_path.name,
              contributions |-> SortByContributionPercent(pushed)]

AuthorMapOrders(repo_path) ==
    IF repo_path.git.readable
    THEN IterationOrders(DOMAIN AuthorMap(repo_path.git.authors))
    ELSE {<<>>}

\* All contributions of the map, in the order the first loop of
\* calculate_author_summaries visits them.
RECURSIVE VisitFrom(_, _, _)
VisitFrom(contributions_map, repo_order, k) ==
    IF k > Len(repo_order) THEN <<>>
    ELSE contributions_map[repo_order[k]] \o VisitFrom(contributions_map, repo_order, k + 1)

VisitOrder(contributions_map, repo_order) == VisitFrom(contributions_map, repo_order, 1)

\* entry.N += contribution.field over the visited contributions of one email
RECURSIVE SumFieldFrom(_, _, _, _)
SumFieldFrom(visited, email, field, i) ==
    IF i > Len(visited) THEN 0
    ELSE (IF visited[i].email = email THEN visited[i][field] ELSE 0)
         + SumFieldFrom(visited, email, field, i + 1)

\* An entry that keeps the value of the email's first contribution only.
SumFieldFirstOnly(visited, email, field) ==
    LET first == CHOOSE i \in 1..Len(visited) :
                     /\ visited[i].email = email
                     /\ \A j \in 1..(i - 1) : visited[j].email # email
    IN  visited[first][field]

SumField(visited, email, field) == SumFieldFrom(visited, email, field, 1)

\* total_lines_changed_all_repos += lines_added + lines_deleted
RECURSIVE SumChangedFrom(_, _)
SumChangedFrom(visited, i) ==
    IF i > Len(visited) THEN 0
    ELSE visited[i].lines_added + visited[i].lines_deleted + SumChangedFrom(visited, i + 1)

SumChanged(visited) == SumChangedFrom(visited, 1)

\* `for (repo, percent) in &repo_percentages { if *percent > highest_percent ... }`
\* <<preferred_repo, highest_percent>> after the first k repositories of order.
RECURSIVE PreferredAfter(_, _, _)
PreferredAfter(repo_percentages, order, k) ==
    IF k = 0 THEN <<"", ZeroPercent>>
    ELSE LET so_far == PreferredAfter(repo_percentages, order, k - 1)
         IN  IF order[k] \in DOMAIN repo_percentages
                /\ PercentGt(repo_percentages[order[k]], so_far[2])
             THEN <<order[k], repo_percentages[order[k]]>>
             ELSE so_far

PreferredRepo(repo_percentages, order) ==
    PreferredAfter(repo_percentages, order, Len(order))

\* calculate_author_summaries(&contributions_map).  The three HashMaps it iterates
\* have no defined order: repo_order is the order of contributions_map,
\* email_order that of author_data, pref_order[email] that of the email's
\* repo_percentages.
calculate_author_summaries(contributions_map, repo_order, email_order, pref_order) ==
    LET visited == VisitOrder(contributions_map, repo_order)
        total_lines_changed_all_repos == SumChanged(visited)
        first(e) == CHOOSE i \in 1..Len(visited) :
                        /\ visited[i].email = e
                        /\ \A j \in 1..(i - 1) : visited[j].email # e
        repos_of(e) == {r \in DOMAIN contributions_map :
                          \E i \in 1..Len(contributions_map[r]) :
                              contributions_map[r][i].email = e}
        \* entry.5.insert(repo_name, percent): the last insert of a key wins
        percent_in(e, r) ==
            LET c == contributions_map[r]
                last == CHOOSE i \in 1..Len(c) :
                            /\ c[i].email = e
                            /\ \A j \in (i + 1)..Len(c) : c[j].email # e
            IN  c[last].contribution_percent
        summary(e) ==
            LET lines_added == SumField(visited, e, "lines_added")
                lines_deleted == SumField(visited, e, "lines_deleted")
                total_lines_changed == lines_added + lines_deleted
                repo_percentages == [r \in repos_of(e) |-> percent_in(e, r)]
                pref == PreferredRepo(repo_percentages, pref_order[e])
            IN  [author |-> visited[first(e)].author,
                 email |-> e,
                 total_commits |-> SumField(visited, e, "commits"),
                 total_lines_added |-> lines_added,
                 total_lines_deleted |-> lines_deleted,
                 overall_contribution_percent |->
                     IF total_lines_changed_all_repos > 0
                     THEN Percent(total_lines_changed, total_lines_changed_all_repos)
                     ELSE ZeroPercent,
                 preferred_repo |-> pref[1],
                 preferred_repo_percent |-> pref[2]]
    IN  SortByOverallPercent([i \in 1..Len(email_order) |-> summary(email_order[i])])

EmailsOf(contributions_map) ==
    UNION {{contributions_map[r][i].email : i \in 1..Len(contributions_map[r])} :
              r \in DOMAIN contributions_map}

\* Every list calculate_author_summaries can return for the map.
AuthorSummaries(contributions_map) ==
    {calculate_author_summaries(contributions_map, ro, eo, po) :
        ro \in IterationOrders(DOMAIN contributions_map),
        eo \in IterationOrders(EmailsOf(contributions_map)),
        po \in [EmailsOf(contributions_map) -> IterationOrders(DOMAIN contributions_map)]}

(***************************************************************************)
(* The inputs of a run: what the glob finds and what git reports.          *)
(***************************************************************************)
\* A repository with no commit.
EmptyHistory ==
    [readable |-> TRUE, total |-> <<>>, authors |-> <<>>, by_author |-> <<>>]

\* Two authors; ann@x commits under two names, bob@x also adds a binary file.
TeamHistory ==
    [readable |-> TRUE,
     total |-> << <<Num(2), Num(1), Word>>, <<Word, Word, Word>>,
                  <<Num(1), Num(0), Word>> >>,
     authors |-> << <<"ann@x", "Ann">>, <<"bob@x", "Bobby">>, <<"ann@x", "Annie">> >>,
     by_author |-> [e \in {"ann@x", "bob@x"} |->
                      IF e = "ann@x"
                      THEN [commits |-> 2, stats |-> << <<Num(2), Num(1), Word>> >>]
                      ELSE [commits |-> 1,
                            stats |-> << <<Word, Word, Word>>, <<Num(1), Num(0), Word>> >>]]]

\* git cannot be run in the directory: Command::output() returns Err.
Unreadable ==
    [readable |-> FALSE, total |-> <<>>, authors |-> <<>>, by_author |-> <<>>]

Histories == {EmptyHistory, TeamHistory, Unreadable}

\* ann@x alone, under a third name.
RenamedHistory ==
    [readable |-> TRUE,
     total |-> << <<Num(1), Num(1), Word>> >>,
     authors |-> << <<"ann@x", "Anna">> >>,
     by_author |-> [e \in {"ann@x"} |->
                      [commits |-> 1, stats |-> << <<Num(1), Num(1), Word>> >>]]]

\* bob@x first in the authors feed, then ann@x, with as many changed lines each.
PairHistory ==
    [readable |-> TRUE,
     total |-> << <<Num(0), Num(1), Word>>, <<Num(1), Num(0), Word>> >>,
     authors |-> << <<"bob@x", "Bob">>, <<"ann@x", "Ann">> >>,
     by_author |-> [e \in {"ann@x", "bob@x"} |->
                      IF e = "ann@x"
                      THEN [commits |-> 1, stats |-> << <<Num(1), Num(0), Word>> >>]
                      ELSE [commits |-> 1, stats |-> << <<Num(0), Num(1), Word>> >>]]]

\* Only binary files were committed: every record has the "-" placeholder, and
\* the total feed also has the header lines of `git log`.
BinaryHistory ==
    [readable |-> TRUE,
     total |-> << <<Word, Word>>, <<Word, Word, Word>>, <<Word, Word, Word>> >>,
     authors |-> << <<"bob@x", "Bob">>, <<"ann@x", "Ann">> >>,
     by_author |-> [e \in {"ann@x", "bob@x"} |->
                      [commits |-> 1, stats |-> << <<Word, Word, Word>> >>]]]

\* The first commit lands after the total feed was read and before the authors
\* feed is: the total is 0 and the author has changed lines.
GrowingHistory ==
    [readable |-> TRUE,
     total |-> <<>>,
     authors |-> << <<"ann@x", "Ann">> >>,
     by_author |-> [e \in {"ann@x"} |->
                      [commits |-> 1, stats |-> << <<Num(2), Num(1), Word>> >>]]]

\* A second commit lands after the total feed was read: the author's feed has
\* a record the total feed has not.
AppendedHistory ==
    [readable |-> TRUE,
     total |-> << <<Num(1), Num(1), Word>> >>,
     authors |-> << <<"ann@x", "Ann">>, <<"ann@x", "Ann">> >>,
     by_author |-> [e \in {"ann@x"} |->
                      [commits |-> 2,
                       stats |-> << <<Num(2), Num(0), Word>>, <<Num(1), Num(1), Word>> >>]]]

GitHistories ==
    {EmptyHistory, TeamHistory, Unreadable, RenamedHistory, PairHistory,
     BinaryHistory, GrowingHistory, AppendedHistory}

\* The directories the glob can match, in the order glob yields them (sorted by
\* path); name is the path's file_name().
GlobOrder == <<[dir |-> "x", name |-> "b"],
               [dir |-> "y", name |-> "a"],
               [dir |-> "z", name |-> "a"]>>

\* Every Ok value of find_repositories: a sub-list of GlobOrder, each directory
\* with the history git reports for it.
DiscoveriesOf(histories) ==
    LET picks == {S \in SUBSET (1..Len(GlobOrder)) : Cardinality(S) <= MaxRepos}
        nth(S, k) == CHOOSE i \in S : Cardinality({j \in S : j < i}) = k - 1
    IN  UNION {{[k \in 1..Cardinality(S) |->
                    [dir |-> GlobOrder[nth(S, k)].dir,
                     name |-> GlobOrder[nth(S, k)].name,
                     git |-> h[nth(S, k)]]] :
                 h \in [S -> histories]} : S \in picks}

Discoveries == DiscoveriesOf(Histories)

(***************************************************************************)
(* State.  A critical section that only assigns fields (lock, assign, drop *)
(* the guard) is one atomic step taken when the lock is free; the lock is  *)
(* a variable because two sections keep it across a blocking call: the     *)
(* worker's empty-discovery path (sleep) and the foreground's join.        *)
(***************************************************************************)
VARIABLES
    \* app.rs: struct App, shared as Arc<Mutex<App>>
    state, repositories, contributions, author_summaries, current_tab,
    selected_in_tab, loading_message, loading_progress, show_help, quit,
    \* the Mutex: "free", "worker", "fg", or "poisoned"
    lock,
    \* main.rs: the loading thread, its locals and its return value
    wpc, found, index, repository_names, contributions_map, summaries,
    thread_result,
    \* main.rs: the foreground loop and its locals
    fpc, loading_thread, loading_thread_complete,
    \* the terminal: the progress value on the loading screen now drawn (None
    \* when no loading screen is drawn), and whether a loading screen with the
    \* "No Git repositories found!" message has been drawn
    progress_drawn, no_repos_rendered,
    \* the number of ticks that have elapsed while loading
    ticks

appVars == <<state, repositories, contributions, author_summaries, current_tab,
             selected_in_tab, loading_message, loading_progress, show_help, quit>>
dataVars == <<repositories, contributions, author_summaries>>
navVars == <<current_tab, selected_in_tab>>
workerVars == <<wpc, found, index, repository_names, contributions_map, summaries,
                thread_result>>
workerLocals == <<found, index, repository_names, contributions_map, summaries>>
fgVars == <<fpc, loading_thread, loading_thread_complete, progress_drawn,
            no_repos_rendered, ticks>>
fgLocals == <<loading_thread, loading_thread_complete, progress_drawn,
              no_repos_rendered, ticks>>
vars == <<appVars, lock, workerVars, fgVars>>

Message(kind, i, n, name) == [kind |-> kind, index |-> i, count |-> n, name |-> name]
Initializing == Message("Initializing...", 0, 0, "")
FindingRepositories == Message("Finding Git repositories", 0, 0, "")
NoRepositoriesFound == Message("No Git repositories found!", 0, 0, "")
Analyzing(i, n, name) == Message("Analyzing repository", i, n, name)
ReportExported == Message("Report exported to", 0, 0, "git_contribution_report.html")
ExportError == Message("Error exporting report", 0, 0, "")

EmptyMap == [r \in {} |-> <<>>]

\* App::new() and the locals of main before the loop.
Init ==
    /\ state = "Loading"
    /\ repositories = <<>>
    /\ contributions = EmptyMap
    /\ author_summaries = <<>>
    /\ current_tab = 0
    /\ selected_in_tab = <<>>
    /\ loading_message = Initializing
    /\ loading_progress = 0
    /\ show_help = FALSE
    /\ quit = FALSE
    /\ lock = "free"
    /\ wpc = "start"
    /\ found = <<>>
    /\ index = 0
    /\ repository_names = <<>>
    /\ contributions_map = EmptyMap
    /\ summaries = <<>>
    /\ thread_result = "running"
    /\ fpc = "draw"
    /\ loading_thread = "Some"
    /\ loading_thread_complete = FALSE
    /\ progress_drawn = None
    /\ no_repos_rendered = FALSE
    /\ ticks = 0

(***************************************************************************)
(* main.rs: the loading thread.                                            *)
(***************************************************************************)
\* The process ends with the main thread: the worker takes no step after fpc
\* is "exited" or "panicked".
ProcessAlive == fpc \notin {"exited", "panicked"}

WorkerAt(pc) == ProcessAlive /\ wpc = pc

\* main.rs 51-59
WSetFinding ==
    /\ WorkerAt("start")
    /\ lock = "free"
    /\ loading_message' = FindingRepositories
    /\ wpc' = "find"
    /\ UNCHANGED <<state, dataVars, navVars, loading_progress, show_help, quit,
                   lock, workerLocals, thread_result, fgVars>>

\* main.rs 61: find_repositories fails (the glob pattern is invalid) and `?`
\* returns the error from the thread.
WFindErr ==
    /\ WorkerAt("find")
    /\ wpc' = "returned"
    /\ thread_result' = "Err"
    /\ UNCHANGED <<appVars, lock, workerLocals, fgVars>>

\* main.rs 61-63, 76: find_repositories returns a list.
WFindOk ==
    /\ WorkerAt("find")
    /\ \E list \in Discoveries :
          /\ found' = list
          /\ wpc' = IF list = <<>> THEN "empty" ELSE "loop"
    /\ UNCHANGED <<appVars, lock, index, repository_names, contributions_map,
                   summaries, thread_result, fgVars>>

\* main.rs 64-70: the guard stays alive
WSetNoRepositories ==
    /\ WorkerAt("empty")
    /\ lock = "free"
    /\ lock' = "worker"
    /\ loading_message' = NoRepositoriesFound
    /\ wpc' = "sleeping"
    /\ UNCHANGED <<state, dataVars, navVars, loading_progress, show_help, quit,
                   workerLocals, thread_result, fgVars>>

\* main.rs 71: thread::sleep(2 s) returns
WSleep ==
    /\ WorkerAt("sleeping")
    /\ wpc' = "empty_main"
    /\ UNCHANGED <<appVars, lock, workerLocals, thread_result, fgVars>>

\* main.rs 72-73: set the phase; `return` drops the guard
WEmptyMain ==
    /\ WorkerAt("empty_main")
    /\ state' = "Main"
    /\ lock' = "free"
    /\ wpc' = "exiting"
    /\ UNCHANGED <<dataVars, navVars, loading_message, loading_progress, show_help,
                   quit, workerLocals, thread_result, fgVars>>

\* ((index as f32 / repo_count as f32) * 100.0) as u8
ProgressOf(i, repo_count) == Min((i * PercentScale) \div repo_count, 255)

\* main.rs 80-101: the next iteration of the loop publishes its status
WSetStatus ==
    /\ WorkerAt("loop")
    /\ index < Len(found)
    /\ lock = "free"
    /\ loading_message' = Analyzing(index + 1, Len(found), found[index + 1].name)
    /\ loading_progress' = ProgressOf(index, Len(found))
    /\ wpc' = "analyze"
    /\ UNCHANGED <<state, dataVars, navVars, show_help, quit, lock, workerLocals,
                   thread_result, fgVars>>

\* main.rs 103-107: analysis succeeds
WAnalyzeOk ==
    /\ WorkerAt("analyze")
    /\ \E order \in AuthorMapOrders(found[index + 1]) :
          LET res == analyze_repository(found[index + 1], order)
          IN  /\ res.ok
              /\ repository_names' = Append(repository_names, res.name)
              /\ contributions_map' =
                    (res.name :> res.contributions) @@ contributions_map
    /\ index' = index + 1
    /\ wpc' = "loop"
    /\ UNCHANGED <<appVars, lock, found, summaries, thread_result, fgVars>>

\* An analysis failure that is propagated with `?` and ends the thread.
WAnalyzeErrAborts ==
    /\ WorkerAt("analyze")
    /\ \E order \in AuthorMapOrders(found[index + 1]) :
          ~analyze_repository(found[index + 1], order).ok
    /\ wpc' = "returned"
    /\ thread_result' = "Err"
    /\ UNCHANGED <<appVars, lock, workerLocals, fgVars>>

\* main.rs 103, 108-110: analysis fails, the error is printed
WAnalyzeErr ==
    /\ WorkerAt("analyze")
    /\ \E order \in AuthorMapOrders(found[index + 1]) :
          ~analyze_repository(found[index + 1], order).ok
    /\ index' = index + 1
    /\ wpc' = "loop"
    /\ UNCHANGED <<appVars, lock, found, repository_names, contributions_map,
                   summaries, thread_result, fgVars>>

\* main.rs 114-116: after the loop
WSortAndSummarize ==
    /\ WorkerAt("loop")
    /\ index = Len(found)
    /\ repository_names' = SortNames(repository_names)
    /\ summaries' \in AuthorSummaries(contributions_map)
    /\ wpc' = "publish"
    /\ UNCHANGED <<appVars, lock, found, index, contributions_map, thread_result,
                   fgVars>>

\* A publish that leaves the summaries for a later critical section.
WPublishWithoutSummaries ==
    /\ WorkerAt("publish")
    /\ lock = "free"
    /\ repositories' = repository_names
    /\ contributions' = contributions_map
    /\ selected_in_tab' = [t \in 1..(Len(repository_names) + 1) |-> None]
    /\ state' = "Main"
    /\ wpc' = "exiting"
    /\ UNCHANGED <<author_summaries, current_tab, loading_message, loading_progress,
                   show_help, quit, lock, workerLocals, thread_result, fgVars>>

\* A publish in two critical sections: the phase first, the data second.
WPublishPhaseFirst ==
    /\ WorkerAt("publish")
    /\ lock = "free"
    /\ IF state # "Main"
       THEN /\ state' = "Main"
            /\ UNCHANGED <<dataVars, selected_in_tab, wpc>>
       ELSE /\ repositories' = repository_names
            /\ contributions' = contributions_map
            /\ author_summaries' = summaries
            /\ selected_in_tab' = [t \in 1..(Len(repository_names) + 1) |-> None]
            /\ wpc' = "exiting"
            /\ UNCHANGED state
    /\ UNCHANGED <<current_tab, loading_message, loading_progress, show_help, quit,
                   lock, workerLocals, thread_result, fgVars>>

\* main.rs 118-130
WPublish ==
    /\ WorkerAt("publish")
    /\ lock = "free"
    /\ repositories' = repository_names
    /\ contributions' = contributions_map
    /\ author_summaries' = summaries
    /\ selected_in_tab' = [t \in 1..(Len(repository_names) + 1) |-> None]
    /\ state' = "Main"
    /\ wpc' = "exiting"
    /\ UNCHANGED <<current_tab, loading_message, loading_progress, show_help, quit,
                   lock, workerLocals, thread_result, fgVars>>

\* main.rs 73, 132-133: the closure has returned Ok(()) and the thread ends
WReturn ==
    /\ WorkerAt("exiting")
    /\ wpc' = "returned"
    /\ thread_result' = "Ok"
    /\ UNCHANGED <<appVars, lock, workerLocals, fgVars>>

Worker ==
    \/ WSetFinding \/ WFindErr \/ WFindOk
    \/ WSetNoRepositories \/ WSleep \/ WEmptyMain
    \/ WSetStatus \/ WAnalyzeOk \/ WAnalyzeErr
    \/ WSortAndSummarize \/ WPublish \/ WReturn

(***************************************************************************)
(* app.rs: the navigation state machine.  Each method yields                *)
(* [panic, selected_in_tab]: panic when an index is out of bounds or when   *)
(* `len() - 1` underflows (checked arithmetic; a build without overflow     *)
(* checks would wrap there, a case no reachable state meets because a       *)
(* Some entry only exists for a non-empty list).                            *)
(***************************************************************************)
Panicked == [panic |-> TRUE, selected_in_tab |-> selected_in_tab]
Unchanged == [panic |-> FALSE, selected_in_tab |-> selected_in_tab]
\* A selection that is always stored in the entry of the first tab.
SelectFirstTab(i) ==
    [panic |-> FALSE,
     selected_in_tab |-> [selected_in_tab EXCEPT ![1] = Some(i)]]

\* self.selected_in_tab[self.current_tab] = Some(i)   (app.rs 64, 77, 96, 109)
Select(i) ==
    [panic |-> FALSE,
     selected_in_tab |-> [selected_in_tab EXCEPT ![current_tab + 1] = Some(i)]]

\* self.contributions.get(&self.repositories[self.current_tab])
ActiveRepo == repositories[current_tab + 1]
HasContributions == ActiveRepo \in DOMAIN contributions

\* next() with the wrap test off by one: `i >= len` for `i >= len - 1`.
NextWrapsLate ==
    IF current_tab >= Len(selected_in_tab) THEN Panicked
    ELSE LET sel == selected_in_tab[current_tab + 1] IN
    IF current_tab >= Len(repositories)
    THEN IF IsSome(sel)
         THEN IF Unwrap(sel) >= Len(author_summaries) THEN Select(0)
              ELSE Select(Unwrap(sel) + 1)
         ELSE IF author_summaries # <<>> THEN Select(0)
         ELSE Unchanged
    ELSE IF IsSome(sel)
         THEN IF HasContributions
              THEN IF Unwrap(sel) >= Len(contributions[ActiveRepo]) THEN Select(0)
                   ELSE Select(Unwrap(sel) + 1)
              ELSE Unchanged
         ELSE IF HasContributions /\ contributions[ActiveRepo] # <<>> THEN Select(0)
         ELSE Unchanged

\* app.rs 51-81
next ==
    IF current_tab >= Len(selected_in_tab) THEN Panicked
    ELSE LET sel == selected_in_tab[current_tab + 1] IN
    IF current_tab >= Len(repositories)
    THEN IF IsSome(sel)
         THEN IF Len(author_summaries) = 0 THEN Panicked
              ELSE IF Unwrap(sel) >= Len(author_summaries) - 1 THEN Select(0)
              ELSE Select(Unwrap(sel) + 1)
         ELSE IF author_summaries # <<>> THEN Select(0)
         ELSE Unchanged
    ELSE IF IsSome(sel)
         THEN IF HasContributions
              THEN IF Len(contributions[ActiveRepo]) = 0 THEN Panicked
                   ELSE IF Unwrap(sel) >= Len(contributions[ActiveRepo]) - 1 THEN Select(0)
                   ELSE Select(Unwrap(sel) + 1)
              ELSE Unchanged
         ELSE IF HasContributions /\ contributions[ActiveRepo] # <<>> THEN Select(0)
         ELSE Unchanged

\* app.rs 83-113
previous ==
    IF current_tab >= Len(selected_in_tab) THEN Panicked
    ELSE LET sel == selected_in_tab[current_tab + 1] IN
    IF current_tab >= Len(repositories)
    THEN IF IsSome(sel)
         THEN IF Unwrap(sel) = 0
              THEN IF Len(author_summaries) = 0 THEN Panicked
                   ELSE Select(Len(author_summaries) - 1)
              ELSE Select(Unwrap(sel) - 1)
         ELSE IF author_summaries # <<>> THEN Select(Len(author_summaries) - 1)
         ELSE Unchanged
    ELSE IF IsSome(sel)
         THEN IF HasContributions
              THEN IF Unwrap(sel) = 0
                   THEN IF Len(contributions[ActiveRepo]) = 0 THEN Panicked
                        ELSE Select(Len(contributions[ActiveRepo]) - 1)
                   ELSE Select(Unwrap(sel) - 1)
              ELSE Unchanged
         ELSE IF HasContributions /\ contributions[ActiveRepo] # <<>>
              THEN Select(Len(contributions[ActiveRepo]) - 1)
         ELSE Unchanged

\* app.rs 116-117 with current_tab = t and repositories.len() = n
NextTabOf(t, n) ==
    LET tab_count == n + 1
    IN  (t + 1) % tab_count

\* A previous_tab that stops at the first tab instead of wrapping.
PreviousTabSaturates(t, n) == IF t = 0 THEN 0 ELSE t - 1

\* app.rs 121-122 with current_tab = t and repositories.len() = n
PreviousTabOf(t, n) ==
    LET tab_count == n + 1
    IN  (t + tab_count - 1) % tab_count

\* app.rs 115-118
next_tab == NextTabOf(current_tab, Len(repositories))

\* app.rs 120-123
previous_tab == PreviousTabOf(current_tab, Len(repositories))

\* app.rs 125-127
toggle_help == ~show_help

\* ui.rs 75-93: render_main_view reads selected_in_tab[current_tab] for the tab
\* it draws; the index panics when the vector has no such entry.
RenderMainPanics ==
    /\ \/ current_tab >= Len(repositories)
       \/ HasContributions
    /\ current_tab >= Len(selected_in_tab)

(***************************************************************************)
(* main.rs: the foreground loop.                                           *)
(***************************************************************************)
\* The main thread panics with the guard alive: the mutex is poisoned and the
\* process ends.
ForegroundPanic ==
    /\ fpc' = "panicked"
    /\ lock' = "poisoned"

AfterDraw == IF loading_thread_complete THEN "poll" ELSE "join"

\* main.rs 141-145, ui.rs 15-36: render_loading_screen
FgDrawLoading ==
    /\ fpc = "draw"
    /\ lock = "free"
    /\ state = "Loading"
    /\ progress_drawn' = Some(loading_progress)
    /\ no_repos_rendered' = (no_repos_rendered \/ loading_message = NoRepositoriesFound)
    /\ fpc' = AfterDraw
    /\ UNCHANGED <<appVars, lock, workerVars, loading_thread, loading_thread_complete,
                   ticks>>

\* main.rs 141-146, ui.rs 38-100: render_main_view
FgDrawMain ==
    /\ fpc = "draw"
    /\ lock = "free"
    /\ state = "Main"
    /\ progress_drawn' = None
    /\ IF RenderMainPanics
       THEN ForegroundPanic
       ELSE /\ fpc' = AfterDraw
            /\ UNCHANGED lock
    /\ UNCHANGED <<appVars, workerVars, loading_thread, loading_thread_complete,
                   no_repos_rendered, ticks>>

\* main.rs 152-154, 162: still loading
FgJoinNotYet ==
    /\ fpc = "join"
    /\ lock = "free"
    /\ state # "Main"
    /\ fpc' = "poll"
    /\ UNCHANGED <<appVars, lock, workerVars, fgLocals>>

\* main.rs 152-156: loaded; thread.join() is called with the guard alive
FgJoinCall ==
    /\ fpc = "join"
    /\ lock = "free"
    /\ state = "Main"
    /\ lock' = "fg"
    /\ fpc' = "joining"
    /\ UNCHANGED <<appVars, workerVars, fgLocals>>

\* main.rs 155-162: join returns once the thread has ended
FgJoined ==
    /\ fpc = "joining"
    /\ wpc = "returned"
    /\ loading_thread' = "None"
    /\ loading_thread_complete' = TRUE
    /\ lock' = "free"
    /\ fpc' = "poll"
    /\ UNCHANGED <<appVars, workerVars, progress_drawn, no_repos_rendered, ticks>>

\* main.rs 169: event::poll times out, or the event is not a key
FgPollTimeout ==
    /\ fpc = "poll"
    /\ fpc' = "quit"
    /\ UNCHANGED <<appVars, lock, workerVars, fgLocals>>

\* main.rs 169-172: a key event is read and the lock taken
KeyRead ==
    /\ fpc = "poll"
    /\ lock = "free"

\* The end of the key handler: the guard is dropped.
KeyHandled ==
    /\ fpc' = "quit"
    /\ UNCHANGED <<lock, workerVars, fgLocals>>

\* A key handler that takes 'q' in every phase.
FgKeyQuitWhileLoading ==
    /\ KeyRead
    /\ state # "Main"
    /\ quit' \in {quit, TRUE}
    /\ KeyHandled
    /\ UNCHANGED <<state, dataVars, navVars, loading_message, loading_progress,
                   show_help>>

\* main.rs 172: no key is handled while loading
FgKeyIgnored ==
    /\ KeyRead
    /\ state # "Main"
    /\ KeyHandled
    /\ UNCHANGED appVars

\* main.rs 174-176: 'q'
FgKeyQuit ==
    /\ KeyRead
    /\ state = "Main"
    /\ quit' = TRUE
    /\ KeyHandled
    /\ UNCHANGED <<state, dataVars, navVars, loading_message, loading_progress,
                   show_help>>

\* main.rs 177: '?'
FgKeyHelp ==
    /\ KeyRead
    /\ state = "Main"
    /\ show_help' = toggle_help
    /\ KeyHandled
    /\ UNCHANGED <<state, dataVars, navVars, loading_message, loading_progress, quit>>

\* An export that shows its message on the loading screen.
FgKeyExportShowsLoading ==
    /\ KeyRead
    /\ state = "Main"
    /\ loading_message' \in {ReportExported, ExportError}
    /\ state' = "Loading"
    /\ KeyHandled
    /\ UNCHANGED <<dataVars, navVars, loading_progress, show_help, quit>>

\* An export whose failure also ends the program.
FgKeyExportFailureQuits ==
    /\ KeyRead
    /\ state = "Main"
    /\ \E ok \in BOOLEAN :
          /\ loading_message' = (IF ok THEN ReportExported ELSE ExportError)
          /\ quit' = (IF ok THEN quit ELSE TRUE)
    /\ KeyHandled
    /\ UNCHANGED <<state, dataVars, navVars, loading_progress, show_help>>

\* main.rs 178-190: 'h'; export_html_report returns Ok or Err (fs::write fails)
FgKeyExport ==
    /\ KeyRead
    /\ state = "Main"
    /\ loading_message' \in {ReportExported, ExportError}
    /\ KeyHandled
    /\ UNCHANGED <<state, dataVars, navVars, loading_progress, show_help, quit>>

\* guard.next() or guard.previous() with outcome `res`
Navigate(res) ==
    /\ selected_in_tab' = res.selected_in_tab
    /\ IF res.panic
       THEN /\ ForegroundPanic
            /\ UNCHANGED <<workerVars, fgLocals>>
       ELSE KeyHandled
    /\ UNCHANGED <<state, dataVars, current_tab, loading_message, loading_progress,
                   show_help, quit>>

\* main.rs 191: Down
FgKeyDown ==
    /\ KeyRead
    /\ state = "Main"
    /\ Navigate(next)

\* main.rs 192: Up
FgKeyUp ==
    /\ KeyRead
    /\ state = "Main"
    /\ Navigate(previous)

\* main.rs 193-199: Tab without SHIFT
FgKeyTab ==
    /\ KeyRead
    /\ state = "Main"
    /\ current_tab' = next_tab
    /\ KeyHandled
    /\ UNCHANGED <<state, dataVars, selected_in_tab, loading_message,
                   loading_progress, show_help, quit>>

\* main.rs 193-196: Tab with SHIFT
FgKeyShiftTab ==
    /\ KeyRead
    /\ state = "Main"
    /\ current_tab' = previous_tab
    /\ KeyHandled
    /\ UNCHANGED <<state, dataVars, selected_in_tab, loading_message,
                   loading_progress, show_help, quit>>

\* main.rs 200: any other key
FgKeyOther ==
    /\ KeyRead
    /\ state = "Main"
    /\ KeyHandled
    /\ UNCHANGED appVars

\* main.rs 208-210
FgQuitBreak ==
    /\ fpc = "quit"
    /\ lock = "free"
    /\ quit
    /\ fpc' = "teardown"
    /\ UNCHANGED <<appVars, lock, workerVars, fgLocals>>

\* main.rs 208-212
FgQuitContinue ==
    /\ fpc = "quit"
    /\ lock = "free"
    /\ ~quit
    /\ fpc' = "tick"
    /\ UNCHANGED <<appVars, lock, workerVars, fgLocals>>

\* main.rs 214: less than tick_rate has elapsed
FgTickSkip ==
    /\ fpc = "tick"
    /\ fpc' = "draw"
    /\ UNCHANGED <<appVars, lock, workerVars, fgLocals>>

\* main.rs 214-221: tick_rate has elapsed, while loading
FgTickLoading ==
    /\ fpc = "tick"
    /\ lock = "free"
    /\ state = "Loading"
    /\ ticks < MaxTicks
    /\ loading_progress' = (loading_progress + 1) % ProgressModulus
    /\ ticks' = ticks + 1
    /\ fpc' = "draw"
    /\ UNCHANGED <<state, dataVars, navVars, loading_message, show_help, quit, lock,
                   workerVars, loading_thread, loading_thread_complete,
                   progress_drawn, no_repos_rendered>>

\* main.rs 214-221: tick_rate has elapsed, once loaded
FgTickMain ==
    /\ fpc = "tick"
    /\ lock = "free"
    /\ state # "Loading"
    /\ fpc' = "draw"
    /\ UNCHANGED <<appVars, lock, workerVars, fgLocals>>

\* main.rs 224-228
FgTeardown ==
    /\ fpc = "teardown"
    /\ fpc' = "exited"
    /\ UNCHANGED <<appVars, lock, workerVars, fgLocals>>

Foreground ==
    \/ FgDrawLoading \/ FgDrawMain
    \/ FgJoinNotYet \/ FgJoinCall \/ FgJoined
    \/ FgPollTimeout
    \/ FgKeyIgnored \/ FgKeyQuit \/ FgKeyHelp \/ FgKeyExport
    \/ FgKeyDown \/ FgKeyUp \/ FgKeyTab \/ FgKeyShiftTab \/ FgKeyOther
    \/ FgQuitBreak \/ FgQuitContinue
    \/ FgTickSkip \/ FgTickLoading \/ FgTickMain
    \/ FgTeardown

Next == Worker \/ Foreground

Spec == Init /\ [][Next]_vars

(***************************************************************************)
(* The aggregation engine on a wider set of histories: the worker has just *)
(* returned from find_repositories with a non-empty list (main.rs 61-78)   *)
(* and runs its loop, the rollup and the publish; the foreground has not   *)
(* taken a step yet.                                                       *)
(***************************************************************************)
GitInit ==
    /\ state = "Loading"
    /\ repositories = <<>>
    /\ contributions = EmptyMap
    /\ author_summaries = <<>>
    /\ current_tab = 0
    /\ selected_in_tab = <<>>
    /\ loading_message = FindingRepositories
    /\ loading_progress = 0
    /\ show_help = FALSE
    /\ quit = FALSE
    /\ lock = "free"
    /\ wpc = "loop"
    /\ found \in DiscoveriesOf(GitHistories) \ {<<>>}
    /\ index = 0
    /\ repository_names = <<>>
    /\ contributions_map = EmptyMap
    /\ summaries = <<>>
    /\ thread_result = "running"
    /\ fpc = "draw"
    /\ loading_thread = "Some"
    /\ loading_thread_complete = FALSE
    /\ progress_drawn = None
    /\ no_repos_rendered = FALSE
    /\ ticks = 0

GitNext ==
    \/ WSetStatus \/ WAnalyzeOk \/ WAnalyzeErr
    \/ WSortAndSummarize \/ WPublish \/ WReturn

GitSpec == GitInit /\ [][GitNext]_vars

\* analyze_repository is being run: WAnalyzeOk or WAnalyzeErr is enabled.
AnalysisRunning == WorkerAt("analyze")

\* The loop has ended and the sort and the rollup are to run: WSortAndSummarize
\* is enabled.
RollupPending == WorkerAt("loop") /\ index = Len(found)

\* Both threads are scheduled and every call the worker makes returns (the
\* sleep ends, git exits, the rollup terminates); the worker needs the lock
\* only in states where the foreground holds it for the length of a field
\* assignment.  The
\* steps that run git or the rollup are enabled exactly in the states
\* AnalysisRunning and RollupPending and always leave them, so weak fairness of these
\* steps is written as: the worker is not in such a state forever.
FairSpec ==
    /\ Spec
    /\ WF_vars(WSetFinding) /\ WF_vars(WFindErr \/ WFindOk)
    /\ WF_vars(WSetNoRepositories) /\ WF_vars(WSleep) /\ WF_vars(WEmptyMain)
    /\ WF_vars(WSetStatus)
    /\ []<>(~AnalysisRunning)
    /\ []<>(~RollupPending)
    /\ WF_vars(WPublish) /\ WF_vars(WReturn)
    /\ WF_vars(Foreground)

(***************************************************************************)
(* Properties.                                                             *)
(***************************************************************************)
\* The discovered repositories whose analysis succeeds.
Succeeded == {i \in 1..Len(found) : found[i].git.readable}

\* `names` is the sorted list of the names of the repositories that succeeded.
IsSortedNamesOfSucceeded(names) ==
    /\ Len(names) = Cardinality(Succeeded)
    /\ \A n \in {found[i].name : i \in 1..Len(found)} \cup Range(names) :
          Cardinality({i \in 1..Len(names) : names[i] = n})
              = Cardinality({i \in Succeeded : found[i].name = n})
    /\ \A i \in 1..Len(names) : \A j \in i..Len(names) : NameLe(names[i], names[j])

\* `map` has one key per name of a repository that succeeded, with the
\* contribution list of a repository of that name.
IsContributionsOfSucceeded(map) ==
    /\ DOMAIN map = {found[i].name : i \in Succeeded}
    /\ \A r \in DOMAIN map :
          \E i \in Succeeded :
             /\ found[i].name = r
             /\ \E order \in AuthorMapOrders(found[i]) :
                   map[r] = analyze_repository(found[i], order).contributions

\* The data of the App is what the whole run produces: every repository was
\* tried, and the three fields hold the worker's final lists, which are those of
\* the repositories that succeeded.
PublishedDataComplete ==
    /\ index = Len(found)
    /\ repositories = repository_names
    /\ contributions = contributions_map
    /\ author_summaries = summaries
    /\ IsSortedNamesOfSucceeded(repositories)
    /\ IsContributionsOfSucceeded(contributions)
    /\ (EmailsOf(contributions) # {}) = (author_summaries # <<>>)

\* The length of the list shown in tab t (0-based): a repository's contribution
\* list, or the summaries for the last tab.
ListLen(t) ==
    IF t >= Len(repositories) THEN Len(author_summaries)
    ELSE IF repositories[t + 1] \in DOMAIN contributions
         THEN Len(contributions[repositories[t + 1]])
         ELSE 0

\* C1: whenever the foreground can take the lock and read phase = Main, the
\* repositories, contributions and summaries it reads are those of the whole
\* run (empty after an empty discovery), the worker has no step left that
\* writes, and no worker step changes the data, the selection vector or the
\* phase once the phase is Main: the phase never shows with part of the data.
C1_LoadedDataComplete ==
    /\ []((lock # "worker" /\ state = "Main") =>
            (PublishedDataComplete /\ wpc \in {"exiting", "returned"}))
    /\ [][(state = "Main" /\ Worker) =>
            UNCHANGED <<state, repositories, contributions, author_summaries,
                        selected_in_tab>>]_vars

\* C1 witness: the foreground is about to draw a loaded state with two
\* repositories and a non-empty summary.
C1_Witness ==
    /\ fpc = "draw" /\ lock = "free" /\ state = "Main"
    /\ Len(repositories) = 2
    /\ author_summaries # <<>>

\* C2: the progress values the foreground draws under the lock on successive
\* loop iterations never decrease.
C2_ProgressMonotone ==
    [][(IsSome(progress_drawn) /\ IsSome(progress_drawn')) =>
          Unwrap(progress_drawn') >= Unwrap(progress_drawn)]_vars

\* C3: when find_repositories fails, the phase eventually becomes Main with
\* empty repositories, contributions and summaries.
C3_DiscoveryFailureDegrades ==
    (thread_result = "Err") ~>
        (/\ state = "Main"
         /\ repositories = <<>>
         /\ contributions = EmptyMap
         /\ author_summaries = <<>>)

\* C4: for a non-empty discovery, the worker analyses the repositories one by
\* one in discovery order (index only ever moves from i to i + 1, by an
\* analysis of found[i + 1]), it ends only after all of them were tried and the
\* phase is Main, and what is published is exactly the repositories whose
\* analysis succeeded; whenever some analysis is pending the phase becomes
\* Main.
C4_FailuresIsolated ==
    /\ []((wpc \in {"exiting", "returned"} /\ found # <<>>) =>
            /\ index = Len(found)
            /\ state = "Main"
            /\ IsSortedNamesOfSucceeded(repositories)
            /\ IsContributionsOfSucceeded(contributions))
    /\ [][index' # index =>
            (index' = index + 1 /\ (WAnalyzeOk \/ WAnalyzeErr))]_vars
    /\ ((wpc = "analyze") ~> (state = "Main"))

\* C4 witness: a run of two repositories, the first of which failed, has
\* published the second.
C4_Witness ==
    /\ wpc = "returned" /\ state = "Main"
    /\ Len(found) = 2
    /\ ~found[1].git.readable /\ found[2].git.readable
    /\ Len(repositories) = 1

\* C5: after a successful discovery the phase becomes Main, and the phase only
\* ever changes from Loading to Main: once Main it stays Main.
C5_LoadedExactlyOnce ==
    /\ ((wpc \in {"empty", "loop"}) ~> (state = "Main"))
    /\ [][state' # state => (state = "Loading" /\ state' = "Main")]_vars
    /\ [][state = "Main" => state' = "Main"]_vars

\* C5 witness: the worker has ended after a non-empty discovery and the
\* foreground has joined it in phase Main.
C5_Witness ==
    /\ state = "Main" /\ wpc = "returned" /\ loading_thread_complete
    /\ found # <<>>

\* C6: after an empty discovery, by the time the phase is Main a loading screen
\* with the "No Git repositories found!" message has been drawn.
C6_NoReposMessageShown ==
    (state = "Main" /\ found = <<>>) => no_repos_rendered

\* C7: in phase Main the selection vector has one entry per tab.
C7_OneSelectionPerTab ==
    state = "Main" => Len(selected_in_tab) = Len(repositories) + 1

\* C8: in phase Main, next and previous on a tab whose list is empty return
\* normally and leave that tab's selection None.
C8_EmptyTabStaysUnselected ==
    [][((FgKeyDown \/ FgKeyUp) /\ ListLen(current_tab) = 0) =>
          /\ fpc' # "panicked"
          /\ selected_in_tab'[current_tab + 1] = None]_vars

\* The selection of the active tab.
ActiveSelection == selected_in_tab[current_tab + 1]

\* C9: on a tab with a list of length L >= 1, next takes None to Some(0),
\* Some(L-1) to Some(0) and Some(i) to Some(i+1); previous takes None to
\* Some(L-1), Some(0) to Some(L-1) and Some(i) to Some(i-1).
C9_NextPreviousWrap ==
    [][/\ (FgKeyDown /\ ListLen(current_tab) >= 1) =>
            /\ fpc' # "panicked"
            /\ selected_in_tab'[current_tab + 1] =
                  IF ActiveSelection = None THEN Some(0)
                  ELSE IF Unwrap(ActiveSelection) = ListLen(current_tab) - 1 THEN Some(0)
                  ELSE Some(Unwrap(ActiveSelection) + 1)
       /\ (FgKeyUp /\ ListLen(current_tab) >= 1) =>
            /\ fpc' # "panicked"
            /\ selected_in_tab'[current_tab + 1] =
                  IF ActiveSelection = None THEN Some(ListLen(current_tab) - 1)
                  ELSE IF Unwrap(ActiveSelection) = 0 THEN Some(ListLen(current_tab) - 1)
                  ELSE Some(Unwrap(ActiveSelection) - 1)]_vars

\* C9 witness: the summary tab of a run with a repository tab, two summaries, the
\* second of them selected.
C9_Witness ==
    /\ state = "Main"
    /\ Len(repositories) >= 1
    /\ current_tab = Len(repositories)
    /\ Len(author_summaries) = 2
    /\ ActiveSelection = Some(1)

\* C10: in phase Main every tab has a selection, and it is None or Some(i) with
\* i less than the length of the tab's list.
C10_SelectionsInRange ==
    state = "Main" =>
        \A t \in 0..Len(repositories) :
            /\ t + 1 \in DOMAIN selected_in_tab
            /\ \/ selected_in_tab[t + 1] = None
               \/ Unwrap(selected_in_tab[t + 1]) < ListLen(t)

\* k calls of next_tab from tab t with n repositories.
RECURSIVE NextTabTimes(_, _, _)
NextTabTimes(t, n, k) ==
    IF k = 0 THEN t ELSE NextTabOf(NextTabTimes(t, n, k - 1), n)

\* C11: with n repositories the active tab stays in 0..n; next_tab takes t to
\* t + 1, and n to 0; previous_tab takes t to t - 1, and 0 to n; each undoes the
\* other; n + 1 calls of next_tab come back to t (from 0 with n = 2: 1, 2, 0);
\* and the Tab and Shift-Tab keys move the active tab in exactly this way.
C11_TabCycling ==
    /\ [](current_tab \in 0..Len(repositories))
    /\ [](LET n == Len(repositories) IN
          /\ \A t \in 0..n :
                /\ NextTabOf(t, n) = (IF t = n THEN 0 ELSE t + 1)
                /\ PreviousTabOf(t, n) = (IF t = 0 THEN n ELSE t - 1)
                /\ PreviousTabOf(NextTabOf(t, n), n) = t
                /\ NextTabOf(PreviousTabOf(t, n), n) = t
                /\ NextTabTimes(t, n, n + 1) = t
          /\ n = 2 => <<NextTabTimes(0, n, 1), NextTabTimes(0, n, 2),
                        NextTabTimes(0, n, 3)>> = <<1, 2, 0>>)
    /\ [][FgKeyTab =>
            current_tab' = (IF current_tab = Len(repositories) THEN 0
                            ELSE current_tab + 1)]_vars
    /\ [][FgKeyShiftTab =>
            current_tab' = (IF current_tab = 0 THEN Len(repositories)
                            ELSE current_tab - 1)]_vars

\* C11 witness: with two repositories, Shift-Tab has wrapped from the first tab
\* to the summary tab.
C11_Witness ==
    /\ state = "Main"
    /\ Len(repositories) = 2
    /\ current_tab = 2
    /\ fpc = "quit"

\* C12: Tab and Shift-Tab change nothing of the App but the active tab index, so
\* every tab keeps its selection; Down and Up (next / previous) leave the active
\* tab index and the number of selection entries alone and change no selection
\* entry other than the one of the active tab.
C12_NavigationFrame ==
    /\ [][(FgKeyTab \/ FgKeyShiftTab) =>
            /\ selected_in_tab' = selected_in_tab
            /\ UNCHANGED <<state, dataVars, loading_message, loading_progress,
                           show_help, quit>>]_vars
    /\ [][(FgKeyDown \/ FgKeyUp) =>
            /\ current_tab' = current_tab
            /\ Len(selected_in_tab') = Len(selected_in_tab)
            /\ \A k \in 1..Len(selected_in_tab) :
                  k # current_tab + 1 => selected_in_tab'[k] = selected_in_tab[k]]_vars

\* C12 witness: a row was selected on the second tab, the tab was switched, and
\* a row was then selected on another tab while the second tab kept its own.
C12_Witness ==
    /\ state = "Main"
    /\ Len(selected_in_tab) >= 2
    /\ current_tab # 1
    /\ current_tab < Len(selected_in_tab)
    /\ IsSome(selected_in_tab[2])
    /\ IsSome(selected_in_tab[current_tab + 1])
    /\ fpc = "quit"

\* C13: calculate_author_summaries is deterministic: the list the worker got
\* from it is the only list the function can return for the worker's map, in
\* every field and in the order of the list.
C13_SummariesDeterministic ==
    wpc = "publish" => AuthorSummaries(contributions_map) = {summaries}

\* The repository whose analysis has just succeeded, and its list in the map.
JustAnalyzed == wpc = "loop" /\ index > 0 /\ found[index].git.readable
LastContributions == contributions_map[found[index].name]

\* The position of the first line of the authors feed that has the email.
FirstInFeed(feed, email) ==
    CHOOSE i \in 1..Len(feed) :
        /\ feed[i][1] = email
        /\ \A j \in 1..(i - 1) : feed[j][1] # email

\* The names of the repositories whose analysis succeeded, in the order of the
\* worker's loop (main.rs 80, 103-107).
ProcessingOrder ==
    LET ok == {k \in 1..Len(found) : found[k].git.readable}
        nth(k) == CHOOSE i \in ok : Cardinality({j \in ok : j < i}) = k - 1
    IN  [k \in 1..Cardinality(ok) |-> found[nth(k)].name]

\* The position of the email's first contribution when the repositories are
\* taken in processing order.
FirstAcross(email) ==
    LET visited == VisitOrder(contributions_map, ProcessingOrder)
    IN  CHOOSE i \in 1..Len(visited) :
            /\ visited[i].email = email
            /\ \A j \in 1..(i - 1) : visited[j].email # email

\* C14: the list analyze_repository returns is in descending order of
\* contribution_percent with equal percents in the order of the authors feed,
\* and the list calculate_author_summaries returns is in descending order of
\* overall_contribution_percent with equal percents in the order in which the
\* authors are first met across the repositories.
C14_SortedStable ==
    /\ JustAnalyzed =>
          LET c == LastContributions
              feed == found[index].git.authors
          IN  \A i, j \in 1..Len(c) : i < j =>
                /\ ~PercentGt(c[j].contribution_percent, c[i].contribution_percent)
                /\ c[i].contribution_percent = c[j].contribution_percent =>
                      FirstInFeed(feed, c[i].email) < FirstInFeed(feed, c[j].email)
    /\ wpc = "publish" =>
          \A i, j \in 1..Len(summaries) : i < j =>
                /\ ~PercentGt(summaries[j].overall_contribution_percent,
                              summaries[i].overall_contribution_percent)
                /\ summaries[i].overall_contribution_percent
                      = summaries[j].overall_contribution_percent =>
                      FirstAcross(summaries[i].email) < FirstAcross(summaries[j].email)

\* The repositories of the map that have a contribution of the email, and the
\* email's percent in one of them.
ReposOf(email) ==
    {r \in DOMAIN contributions_map :
        \E i \in 1..Len(contributions_map[r]) : contributions_map[r][i].email = email}
PercentIn(email, r) ==
    LET c == contributions_map[r]
    IN  c[CHOOSE i \in 1..Len(c) : c[i].email = email].contribution_percent

\* C15: the preferred repository of a summary is one where the author's percent
\* is the highest and preferred_repo_percent is that percent; it is the empty
\* name with 0% when no repository gives the author more than 0%; among the
\* repositories that share the highest percent it is the first by name.
C15_PreferredRepo ==
    wpc = "publish" =>
        \A k \in 1..Len(summaries) :
            LET s == summaries[k]
                best == {r \in ReposOf(s.email) :
                            /\ PercentGt(PercentIn(s.email, r), ZeroPercent)
                            /\ \A q \in ReposOf(s.email) :
                                  ~PercentGt(PercentIn(s.email, q), PercentIn(s.email, r))}
            IN  IF best = {}
                THEN s.preferred_repo = "" /\ s.preferred_repo_percent = ZeroPercent
                ELSE /\ s.preferred_repo \in best
                     /\ s.preferred_repo_percent = PercentIn(s.email, s.preferred_repo)
                     /\ \A r \in best : NameLe(s.preferred_repo, r)

\* The Contribution entries of the map, as <<repository, position>> pairs.
Entries ==
    UNION {{<<r, i>> : i \in 1..Len(contributions_map[r])} : r \in DOMAIN contributions_map}
EntryAt(x) == contributions_map[x[1]][x[2]]

\* The sum of f over the set S.
RECURSIVE SetSum(_, _)
SetSum(S, f) ==
    IF S = {} THEN 0
    ELSE LET x == CHOOSE y \in S : TRUE
         IN  f[x] + SetSum(S \ {x}, f)

\* The sum of a field over the Contribution entries of one email.
TotalOf(email, field) ==
    LET mine == {x \in Entries : EntryAt(x).email = email}
    IN  SetSum(mine, [x \in mine |-> EntryAt(x)[field]])

\* total lines added + total lines deleted over all entries of the map.
GrandTotal ==
    SetSum(Entries, [x \in Entries |-> EntryAt(x).lines_added + EntryAt(x).lines_deleted])

\* The sum of the first k percents of a list of percents, as a fraction.
RECURSIVE PercentSum(_, _)
PercentSum(percents, k) ==
    IF k = 0 THEN <<0, 1>>
    ELSE LET rest == PercentSum(percents, k - 1)
             p == percents[k]
         IN  <<rest[1] * p[2] + p[1] * rest[2], rest[2] * p[2]>>

\* C16: the rollup has exactly one summary per distinct email of the map; its
\* commits, lines added and lines deleted are the sums of that email's entries
\* over all repositories; its overall percent is its changed lines over the
\* grand total times 100, or 0 when the grand total is 0; and the overall
\* percents sum to 100 when the grand total is positive.
C16_SummaryTotals ==
    wpc = "publish" =>
        /\ Len(summaries) = Cardinality(EmailsOf(contributions_map))
        /\ {summaries[k].email : k \in 1..Len(summaries)} = EmailsOf(contributions_map)
        /\ \A k \in 1..Len(summaries) :
              LET s == summaries[k]
                  p == s.overall_contribution_percent
              IN  /\ s.total_commits = TotalOf(s.email, "commits")
                  /\ s.total_lines_added = TotalOf(s.email, "lines_added")
                  /\ s.total_lines_deleted = TotalOf(s.email, "lines_deleted")
                  /\ p[2] > 0
                  /\ IF GrandTotal > 0
                     THEN p[1] * GrandTotal
                            = PercentScale * (s.total_lines_added + s.total_lines_deleted) * p[2]
                     ELSE p[1] = 0
        /\ GrandTotal > 0 =>
              LET sum == PercentSum([k \in 1..Len(summaries) |->
                                        summaries[k].overall_contribution_percent],
                                    Len(summaries))
              IN  sum[1] = PercentScale * sum[2]

\* C16 witness: one email has entries in two repositories, another email has
\* entries too, and the grand total is positive.
C16_Witness ==
    /\ wpc = "publish"
    /\ Len(summaries) = 2
    /\ GrandTotal > 0
    /\ \E k \in 1..2 : Cardinality(ReposOf(summaries[k].email)) = 2
    /\ \E k \in 1..2 : summaries[k].total_commits = 3

\* C17: an email met under several names gives one entry, named as the email
\* was named the first time it was met: in the authors feed for the list of a
\* repository, and in the first repository processed for the summaries.
C17_FirstSeenName ==
    /\ JustAnalyzed =>
          LET c == LastContributions
              feed == found[index].git.authors
          IN  /\ \A e \in {feed[i][1] : i \in 1..Len(feed)} :
                    Cardinality({i \in 1..Len(c) : c[i].email = e}) = 1
              /\ \A i \in 1..Len(c) : c[i].author = feed[FirstInFeed(feed, c[i].email)][2]
    /\ wpc = "publish" =>
          /\ \A e \in EmailsOf(contributions_map) :
                Cardinality({k \in 1..Len(summaries) : summaries[k].email = e}) = 1
          /\ \A k \in 1..Len(summaries) :
                summaries[k].author =
                    VisitOrder(contributions_map, ProcessingOrder)
                        [FirstAcross(summaries[k].email)].author

\* A record of a numstat feed: a line of three tokens.  It counts when its two
\* first tokens are numbers; with the "-" placeholder of a binary file it does not.
IsRecord(line) == Len(line) = 3
Counts(line) == IsRecord(line) /\ line[1].num /\ line[2].num

\* The changed lines of the total feed, placeholder records left out.
TotalChanged(history) ==
    LET lines == history.total
        counted == {i \in 1..Len(lines) : Counts(lines[i])}
    IN  SetSum(counted, [i \in counted |-> lines[i][1].val + lines[i][2].val])

\* The per-author feeds partition the total feed by author email: every record
\* is in the total feed as many times as in the feeds of all emails together.
FeedsPartition(history) ==
    LET emails == DOMAIN AuthorMap(history.authors)
        times(feed, v) == Cardinality({i \in 1..Len(feed) : feed[i] = v})
        records == {v \in Range(history.total) : IsRecord(v)}
                   \cup UNION {{v \in Range(history.by_author[e].stats) : IsRecord(v)} :
                                  e \in emails}
    IN  \A v \in records :
            times(history.total, v)
              = SetSum(emails, [e \in emails |-> times(history.by_author[e].stats, v)])

\* C18: when the total changed lines of a repository are positive and the
\* per-author feeds partition the total feed, the contribution percents of its
\* list sum to 100 and the authors' changed lines sum to the repository total,
\* records with the binary placeholder counting on neither side.
C18_RepoPercentsSumTo100 ==
    (/\ JustAnalyzed
     /\ TotalChanged(found[index].git) > 0
     /\ FeedsPartition(found[index].git)) =>
        LET c == LastContributions
            sum == PercentSum([i \in 1..Len(c) |-> c[i].contribution_percent], Len(c))
            idx == 1..Len(c)
        IN  /\ sum[1] = PercentScale * sum[2]
            /\ SetSum(idx, [i \in idx |-> c[i].lines_added + c[i].lines_deleted])
                 = TotalChanged(found[index].git)

\* C18 witness: a repository with a binary record, two authors and a positive
\* total has been analyzed.
C18_Witness ==
    /\ JustAnalyzed
    /\ TotalChanged(found[index].git) > 0
    /\ FeedsPartition(found[index].git)
    /\ \E i \in 1..Len(found[index].git.total) :
          IsRecord(found[index].git.total[i]) /\ ~Counts(found[index].git.total[i])
    /\ Len(LastContributions) = 2

\* C19: for a repository whose total changed lines are 0 (no record, or only
\* placeholder and malformed lines), analyze_repository returns Ok with one
\* entry per author, and every entry's contribution percent is exactly 0,
\* whatever the author's own added and deleted sums are.
C19_ZeroTotalZeroPercent ==
    /\ (/\ wpc = "analyze"
        /\ found[index + 1].git.readable
        /\ TotalChanged(found[index + 1].git) = 0) =>
          \A order \in AuthorMapOrders(found[index + 1]) :
              LET res == analyze_repository(found[index + 1], order)
              IN  /\ res.ok
                  /\ Len(res.contributions)
                       = Cardinality(DOMAIN AuthorMap(found[index + 1].git.authors))
                  /\ \A i \in 1..Len(res.contributions) :
                        res.contributions[i].contribution_percent = ZeroPercent
    /\ (JustAnalyzed /\ TotalChanged(found[index].git) = 0) =>
          \A i \in 1..Len(LastContributions) :
              LastContributions[i].contribution_percent = ZeroPercent

\* C19 witness: a repository with a total of 0 has been analyzed and one of
\* its authors has changed lines of their own.
C19_Witness ==
    /\ JustAnalyzed
    /\ TotalChanged(found[index].git) = 0
    /\ \E i \in 1..Len(LastContributions) :
          /\ LastContributions[i].lines_added + LastContributions[i].lines_deleted > 0
          /\ LastContributions[i].contribution_percent = ZeroPercent

\* C20: the foreground reaches the terminal teardown, and returns, only after
\* it has joined the worker thread.
C20_TeardownAfterJoin ==
    fpc \in {"teardown", "exited"} =>
        /\ loading_thread = "None"
        /\ loading_thread_complete
        /\ wpc = "returned"

\* C21: an export in the loaded state, succeeding or failing, leaves the data,
\* the active tab, the selections, the phase, the help flag and the quit flag
\* unchanged and sets only the status message (to the export-error text when
\* it fails); the foreground goes on with its loop; and whenever the
\* foreground waits for a key in the loaded state an export can be handled
\* again, whatever the earlier ones did.
C21_ExportRecoverable ==
    /\ [][FgKeyExport =>
            /\ UNCHANGED <<state, dataVars, navVars, loading_progress, show_help, quit>>
            /\ loading_message' \in {ReportExported, ExportError}
            /\ fpc' = "quit"]_vars
    /\ []((fpc = "poll" /\ lock = "free" /\ state = "Main") => ENABLED FgKeyExport)

\* C21 witness: an export has failed with a row selected on a tab other than
\* the first, and the foreground is waiting for the next key.
C21_Witness ==
    /\ state = "Main"
    /\ loading_message = ExportError
    /\ fpc = "poll"
    /\ lock = "free"
    /\ ~quit
    /\ current_tab > 0
    /\ IsSome(selected_in_tab[current_tab + 1])

\* The worker is inside a call that waits: find_repositories (the glob walk),
\* thread::sleep, or analyze_repository (the git processes).
WorkerWaits == wpc \in {"find", "sleeping", "analyze"}

\* C22: the worker never holds the lock while it sleeps or while a discovery
\* or an external process is in progress.
C22_WorkerLockBrief == ~(lock = "worker" /\ WorkerWaits)

\* C23: the foreground never holds the lock while it waits for input or while
\* it joins the worker thread.
C23_ForegroundLockBrief == ~(lock = "fg" /\ fpc \in {"poll", "joining"})

\* C24: no step of the foreground loop changes the status message, the
\* progress counter, the phase or the loaded data.
C24_ForegroundOnlyNavigates ==
    [][Foreground =>
         UNCHANGED <<state, dataVars, loading_message, loading_progress>>]_vars

\* C25: when the worker announces "Analyzing repository i/N" the progress it
\* writes is floor(i / N * 100), which is 100 for the last repository.
C25_ProgressIsShareDone ==
    [][WSetStatus =>
         LET i == loading_message'.index
             n == loading_message'.count
         IN  /\ loading_progress' = (i * PercentScale) \div n
             /\ i = n => loading_progress' = PercentScale]_vars

\* The worker has no lock acquisition left: it is past its last critical
\* section (main.rs 72-73, 129-132) or has returned.
WorkerPastLastLock == wpc \in {"exiting", "returned"}

\* C26: once the phase is loaded the worker needs the lock no more, so while
\* the foreground joins the worker with the lock held the worker is never
\* waiting for the lock; and when both threads are scheduled every join
\* returns.
C26_NoDeadlock ==
    /\ [](state = "Main" => WorkerPastLastLock)
    /\ [](fpc = "joining" => (lock = "fg" /\ WorkerPastLastLock))
    /\ (fpc = "joining") ~> (fpc = "poll" /\ lock = "free" /\ loading_thread = "None")

\* C26 witness: the foreground is inside thread.join() with the lock held and
\* the worker has not returned yet.
C26_Witness ==
    /\ fpc = "joining"
    /\ lock = "fg"
    /\ wpc = "exiting"

C28_TabsMatchMap ==
    state = "Main" =>
        /\ \A i, j \in 1..Len(repositories) :
              repositories[i] = repositories[j] => i = j
        /\ Range(repositories) = DOMAIN contributions
        /\ Len(repositories) = Cardinality(DOMAIN contributions)
        /\ Len(repositories) = Len(ProcessingOrder)

====
